---- MODULE Spec2Model ----
(***************************************************************************)
(* A model of gib (src/gib.py), a static site generator for a git          *)
(* repository.  One run reads the repository (commit history, tags,        *)
(* remote branches, head tree) and writes commits.html, refs.html,          *)
(* files.html, one viewer page per viewable file, and the index.html link. *)
(*                                                                         *)
(* Strings are sequences of tokens.  The tokens "a", "b", ".html" and "/"  *)
(* start with pairwise different characters, so two token sequences are    *)
(* equal exactly when the strings they spell are equal, and the            *)
(* lexicographic order of token sequences (tokens ranked by their first    *)
(* character) is the order Python gives the strings.                       *)
(***************************************************************************)
EXTENDS Integers, Sequences, FiniteSets, TLC

VARIABLES
    commits,       \* the object graph's commits, indexed by id; head is the last
    tags,          \* refs/tags/*, in enumeration order
    branches,      \* remote-tracking branches, in enumeration order
    tree,          \* the head commit's tree, as listed by pygit2
    fs,            \* the output directory: path -> [kind, target]
    pc,            \* position of __main__
    err,           \* the exception that ended the run, "" when none
    walk,          \* get_commits(repo) as returned by the walker
    commits_page,  \* what commits.html was rendered from
    refs_page,     \* what refs.html was rendered from
    raw_data,      \* generate_files_html's sorted (path, entry) list
    files_page,    \* what files.html was rendered from
    written        \* output paths written by this run, in order

vars == <<commits, tags, branches, tree, fs, pc, err, walk, commits_page,
          refs_page, raw_data, files_page, written>>

----------------------------------------------------------------------------
(* Bounds of the explored inputs. *)

MaxCommits == 3
MaxTime == 2
MaxLines == 2
MaxRefs == 3
MaxEntries == 3

(* The page caps.  The source sets all three to 100; the model scales them  *)
(* to 2 so that lists longer than the cap are explored.  Nothing in the     *)
(* code depends on the value other than through the comparisons modelled.   *)
MAX_COMMITS == 2
MAX_REFS == 2
MAX_FILES == 2

----------------------------------------------------------------------------
(* Sequences and strings. *)

Range(s) == {s[i] : i \in DOMAIN s}

Take(s, n) == SubSeq(s, 1, IF n < Len(s) THEN n ELSE Len(s))

Reverse(s) == [i \in 1..Len(s) |-> s[Len(s) + 1 - i]]

Min(a, b) == IF a < b THEN a ELSE b

RECURSIVE Concat(_)
Concat(ss) == IF ss = <<>> THEN <<>> ELSE Head(ss) \o Concat(Tail(ss))

(* Rank of a token's first character in code-point order: '.' < '/' < 'a' < 'b'. *)
CharRank(c) == CASE c = ".html" -> 1 [] c = "/" -> 2 [] c = "a" -> 3 [] c = "b" -> 4

(* s < t for Python strings. *)
RECURSIVE StrLess(_, _)
StrLess(s, t) ==
    IF t = <<>> THEN FALSE
    ELSE IF s = <<>> THEN TRUE
    ELSE IF Head(s) = Head(t) THEN StrLess(Tail(s), Tail(t))
    ELSE CharRank(Head(s)) < CharRank(Head(t))

(* str.split(sep): the pieces between occurrences of the one-token separator. *)
RECURSIVE Split(_, _)
Split(s, sep) ==
    IF \A i \in DOMAIN s : s[i] # sep THEN <<s>>
    ELSE LET k == CHOOSE i \in DOMAIN s : s[i] = sep /\ \A j \in 1..(i-1) : s[j] # sep
         IN  <<SubSeq(s, 1, k - 1)>> \o Split(SubSeq(s, k + 1, Len(s)), sep)

(* list.sort(key=...) on the keys alone: the permutation p with p[k] the    *)
(* index of the element that ends at position k.  Ascending and stable.     *)
StableSort(keys) ==
    LET n == Len(keys)
        pos(i) == 1 + Cardinality({j \in 1..n :
                        keys[j] < keys[i] \/ (keys[j] = keys[i] /\ j < i)})
    IN  [k \in 1..n |-> CHOOSE i \in 1..n : pos(i) = k]

(* tmp.sort(key=...); tmp.reverse() *)
SortThenReverse(s, keys) ==
    LET p == StableSort(keys) IN Reverse([k \in 1..Len(s) |-> s[p[k]]])

----------------------------------------------------------------------------
(* is_mime_viewable.  A mime type is the token sequence <<type, "/", sub>>. *)

TextPlain == <<"text", "/", "plain">>
AppJson == <<"application", "/", "json">>
OctetStream == <<"application", "/", "octet-stream">>

StartsWith(s, prefix) ==
    Len(s) >= Len(prefix) /\ SubSeq(s, 1, Len(prefix)) = prefix

is_mime_viewable(mime) ==
    IF StartsWith(mime, <<"text", "/">>) THEN TRUE
    ELSE IF mime \in {AppJson} THEN TRUE
    ELSE FALSE

----------------------------------------------------------------------------
(* The head tree as pygit2 lists it.  An entry is a blob (mime: what        *)
(* libmagic detects in its bytes; utf8: whether the bytes decode as UTF-8)  *)
(* or a subtree with its own entries.  Names are unique within a tree and   *)
(* contain no "/".                                                          *)

NameOrder == << <<"a">>, <<"a", ".html">>, <<"b">> >>

BlobKinds ==
    { [mime |-> TextPlain, utf8 |-> TRUE],
      [mime |-> TextPlain, utf8 |-> FALSE],
      [mime |-> AppJson, utf8 |-> TRUE],
      [mime |-> OctetStream, utf8 |-> FALSE] }

BlobEntry(n, k) ==
    [name |-> n, type |-> "blob", filemode |-> "rw-r--r--",
     mime |-> k.mime, utf8 |-> k.utf8, entries |-> <<>>]

TreeEntry(n, es) ==
    [name |-> n, type |-> "tree", filemode |-> "---------",
     mime |-> <<>>, utf8 |-> FALSE, entries |-> es]

RECURSIVE NumLeaves(_)
NumLeaves(es) ==
    IF es = <<>> THEN 0
    ELSE (IF Head(es).type = "tree" THEN NumLeaves(Head(es).entries) ELSE 1)
         + NumLeaves(Tail(es))

RECURSIVE NumEntries(_)
NumEntries(es) ==
    IF es = <<>> THEN 0
    ELSE 1 + NumEntries(Head(es).entries) + NumEntries(Tail(es))

(* The entry lists over the names NameOrder[k..] in git's order, with at    *)
(* most n entries in all, subtrees' entries counted, and no empty subtree.  *)
RECURSIVE TreesFrom(_, _)
TreesFrom(k, n) ==
    IF k > Len(NameOrder) \/ n < 1 THEN {<<>>}
    ELSE LET nm == NameOrder[k]
             here == {BlobEntry(nm, b) : b \in BlobKinds}
                     \cup {TreeEntry(nm, es) : es \in TreesFrom(1, n - 1) \ {<<>>}}
         IN  TreesFrom(k + 1, n)
             \cup UNION { { <<e>> \o r : r \in TreesFrom(k + 1, n - NumEntries(<<e>>)) }
                          : e \in here }

Trees(n) == TreesFrom(1, n)

----------------------------------------------------------------------------
(* Python dicts: a sequence of items in insertion order, keys unique.       *)

RECURSIVE DictSet(_, _)
DictSet(d, item) ==
    IF d = <<>> THEN <<item>>
    ELSE IF Head(d).key = item.key THEN <<item>> \o Tail(d)
    ELSE <<Head(d)>> \o DictSet(Tail(d), item)

RECURSIVE DictOf(_)
DictOf(items) ==
    IF items = <<>> THEN <<>>
    ELSE DictSet(DictOf(SubSeq(items, 1, Len(items) - 1)), items[Len(items)])

(* list_files: name -> nested dict for a subtree, name -> entry otherwise.  *)
RECURSIVE list_files(_)
list_files(t) ==
    DictOf([i \in 1..Len(t) |->
        IF t[i].type = "tree"
        THEN [key |-> t[i].name, mapping |-> TRUE,
              items |-> list_files(t[i].entries), entry |-> t[i]]
        ELSE [key |-> t[i].name, mapping |-> FALSE,
              items |-> <<>>, entry |-> t[i]]])

(* flatten with the parent key dropped: the bug the flattening claim excludes *)
RECURSIVE flattenNoParent(_, _, _)
flattenNoParent(dictionary, parent_key, separator) ==
    DictOf(Concat([i \in 1..Len(dictionary) |->
        LET new_key == dictionary[i].key
        IN  IF dictionary[i].mapping
            THEN flattenNoParent(dictionary[i].items, new_key, separator)
            ELSE << [key |-> new_key, entry |-> dictionary[i].entry] >>]))

RECURSIVE flatten(_, _, _)
flatten(dictionary, parent_key, separator) ==
    DictOf(Concat([i \in 1..Len(dictionary) |->
        LET new_key == IF parent_key # <<>>
                       THEN parent_key \o separator \o dictionary[i].key
                       ELSE dictionary[i].key
        IN  IF dictionary[i].mapping
            THEN flatten(dictionary[i].items, new_key, separator)
            ELSE << [key |-> new_key, entry |-> dictionary[i].entry] >>]))

----------------------------------------------------------------------------
(* The commit graph.  commits[i] is the commit with id i; parents have      *)
(* smaller ids; head is the last commit.  A commit's tree is given here by  *)
(* the set of lines it holds (a line counted with the file it is in), which *)
(* is all the diff accessor reads: lines of one file are pairwise distinct  *)
(* and keep their order, so a line-level diff adds the lines only the new   *)
(* side has and removes the lines only the old side has.                    *)

Lines == 1..MaxLines
Times == 1..MaxTime

ParentLists(i) ==
    {<<>>} \cup {<<p>> : p \in 1..(i-1)}
           \cup {pq \in (1..(i-1)) \X (1..(i-1)) : pq[1] # pq[2]}

CommitsAt(i) ==
    [id : {i}, commit_time : Times, parents : ParentLists(i), tree : SUBSET Lines]

RECURSIVE HistoriesOfLen(_)
HistoriesOfLen(n) ==
    IF n = 0 THEN {<<>>}
    ELSE {Append(h, c) : h \in HistoriesOfLen(n - 1), c \in CommitsAt(n)}

Histories(max) == UNION {HistoriesOfLen(n) : n \in 1..max}

(* repo.head.target *)
HeadTarget(cs) == Len(cs)

RECURSIVE Ancestors(_, _)
Ancestors(cs, i) == {i} \cup UNION {Ancestors(cs, p) : p \in Range(cs[i].parents)}

(* repo.walk(start, GIT_SORT_TOPOLOGICAL): the commits reachable from       *)
(* start, no parent before all of its children have been shown.             *)
TopologicalWalks(cs, start) ==
    LET reach == Ancestors(cs, start)
        n == Cardinality(reach)
    IN  { w \in [1..n -> reach] :
            /\ \A i, j \in 1..n : i # j => w[i] # w[j]
            /\ \A i, j \in 1..n : w[j] \in Range(cs[w[i]].parents) => i < j }

(* Tree.diff_to_tree(other, swap).stats: the diff goes from self to other,  *)
(* from other to self with swap; other defaults to the empty tree.          *)
diff_to_tree(self, other, swap) ==
    LET from == IF swap THEN other ELSE self
        to == IF swap THEN self ELSE other
    IN  [insertions |-> Cardinality(to \ from), deletions |-> Cardinality(from \ to)]

EmptyTree == {}

----------------------------------------------------------------------------
(* References and the objects they name.  Object ids 1..Len(commits) are    *)
(* the commits; the negative ids are a tree, a blob, an annotated tag of    *)
(* the head commit, an annotated tag of the tree, an annotated tag of an    *)
(* annotated tag, and an id with no object behind it.                       *)

OtherOids == {-1, -2, -3, -4, -5, -6}

Obj(t, i, time, tgt) == [type |-> t, id |-> i, commit_time |-> time, target |-> tgt]

(* repo.get(oid); None is the object of type "none". *)
RepoGet(cs, oid) ==
    IF oid \in 1..Len(cs) THEN Obj("commit", oid, cs[oid].commit_time, 0)
    ELSE CASE oid = -1 -> Obj("tree", oid, 0, 0)
           [] oid = -2 -> Obj("blob", oid, 0, 0)
           [] oid = -3 -> Obj("tag", oid, 0, HeadTarget(cs))
           [] oid = -4 -> Obj("tag", oid, 0, -1)
           [] oid = -5 -> Obj("tag", oid, 0, -3)
           [] OTHER -> Obj("none", oid, 0, 0)

Oids(cs) == (1..Len(cs)) \cup OtherOids

RECURSIVE TagListsOfLen(_, _)
TagListsOfLen(cs, n) ==
    IF n = 0 THEN {<<>>}
    ELSE {Append(r, [shorthand |-> <<"v", ToString(n)>>, target |-> t]) :
             r \in TagListsOfLen(cs, n - 1), t \in Oids(cs)}

TagLists(cs, max) == UNION {TagListsOfLen(cs, n) : n \in 0..max}

(* A remote branch is direct (target is an Oid) or symbolic, like           *)
(* origin/HEAD (target is the name of another reference).                   *)
RECURSIVE BranchListsOfLen(_, _)
BranchListsOfLen(cs, n) ==
    IF n = 0 THEN {<<>>}
    ELSE {Append(r, [shorthand |-> <<"origin", "/", "b", ToString(n)>>,
                     symbolic |-> y, target |-> t]) :
             r \in BranchListsOfLen(cs, n - 1), y \in BOOLEAN,
             t \in (1..Len(cs)) \cup {-6}}

BranchLists(cs, max) == UNION {BranchListsOfLen(cs, n) : n \in 0..max}

RECURSIVE Join(_, _)
Join(parts, sep) ==
    IF parts = <<>> THEN <<>>
    ELSE IF Len(parts) = 1 THEN parts[1]
    ELSE parts[1] \o <<sep>> \o Join(Tail(parts), sep)

get_branch_name(ref) == Join(Tail(Split(ref.shorthand, "/")), "/")

get_tags(cs, refs) ==
    [i \in 1..Len(refs) |->
        LET target == RepoGet(cs, refs[i].target)
            commit == IF target.type = "tag" THEN RepoGet(cs, target.target) ELSE target
        IN  [ref |-> refs[i], commit |-> commit]]

get_branches(cs, refs) ==
    LET direct(b) == ~b.symbolic
        kept == SelectSeq(refs, direct)
    IN  [i \in 1..Len(kept) |-> [ref |-> kept[i], commit |-> RepoGet(cs, kept[i].target)]]

----------------------------------------------------------------------------
(* The output directory.  A path is the sequence of its segments below the  *)
(* output directory; fs maps the paths that exist to a file, a directory or *)
(* a symbolic link with its target.                                         *)

File == [kind |-> "file", target |-> <<>>]
Dir == [kind |-> "dir", target |-> <<>>]
Link(t) == [kind |-> "link", target |-> t]

CommitsHtml == << <<"commits", ".html">> >>
RefsHtml == << <<"refs", ".html">> >>
FilesHtml == << <<"files", ".html">> >>
IndexHtml == << <<"index", ".html">> >>
OldHtml == << <<"old", ".html">> >>

Parent(p) == SubSeq(p, 1, Len(p) - 1)

IsDir(f, p) == p = <<>> \/ (p \in DOMAIN f /\ f[p].kind = "dir")

(* os.path.exists: follows a symbolic link, False for a broken one. *)
PathExists(f, p) ==
    p = <<>> \/ (p \in DOMAIN f /\ (f[p].kind = "link" => f[p].target \in DOMAIN f))

Put(f, p, v) == [q \in DOMAIN f \cup {p} |-> IF q = p THEN v ELSE f[q]]

(* open(p, "w") and the write: [err, fs]. *)
OpenWrite(f, p) ==
    LET q == IF p \in DOMAIN f /\ f[p].kind = "link" THEN f[p].target ELSE p
    IN  IF Parent(q) # <<>> /\ Parent(q) \notin DOMAIN f
        THEN [err |-> "FileNotFoundError", fs |-> f]
        ELSE IF ~IsDir(f, Parent(q)) THEN [err |-> "NotADirectoryError", fs |-> f]
        ELSE IF IsDir(f, q) THEN [err |-> "IsADirectoryError", fs |-> f]
        ELSE [err |-> "", fs |-> Put(f, q, File)]

(* os.mkdir(p) *)
MkDir(f, p) ==
    IF p \in DOMAIN f \/ p = <<>> THEN [err |-> "FileExistsError", fs |-> f]
    ELSE IF Parent(p) # <<>> /\ Parent(p) \notin DOMAIN f
    THEN [err |-> "FileNotFoundError", fs |-> f]
    ELSE IF ~IsDir(f, Parent(p)) THEN [err |-> "NotADirectoryError", fs |-> f]
    ELSE [err |-> "", fs |-> Put(f, p, Dir)]

(* os.makedirs(p, exist_ok=True): the missing ancestors first, a            *)
(* FileExistsError of theirs ignored; then mkdir(p), whose error is raised  *)
(* unless p is a directory.                                                 *)
RECURSIVE MakeDirs(_, _)
MakeDirs(f, p) ==
    LET up == IF p # <<>> /\ Parent(p) # <<>> /\ ~PathExists(f, Parent(p))
              THEN MakeDirs(f, Parent(p))
              ELSE [err |-> "", fs |-> f]
    IN  IF up.err \notin {"", "FileExistsError"} THEN up
        ELSE LET r == MkDir(up.fs, p)
             IN  IF r.err # "" /\ IsDir(up.fs, p) THEN [err |-> "", fs |-> up.fs] ELSE r

(* os.remove(p) *)
Remove(f, p) ==
    IF p \notin DOMAIN f THEN [err |-> "FileNotFoundError", fs |-> f]
    ELSE IF f[p].kind = "dir" THEN [err |-> "IsADirectoryError", fs |-> f]
    ELSE [err |-> "", fs |-> [q \in DOMAIN f \ {p} |-> f[q]]]

(* os.symlink(target, p) *)
Symlink(f, t, p) ==
    IF p \in DOMAIN f THEN [err |-> "FileExistsError", fs |-> f]
    ELSE [err |-> "", fs |-> Put(f, p, Link(t))]

----------------------------------------------------------------------------
(* The run.  Init is the state after os.makedirs(args.outdir): the          *)
(* repository is open, the output directory exists, nothing is written.     *)

NoPage == [rows |-> <<>>, total |-> -1]

Crash(e) == pc' = "crashed" /\ err' = e

(* generate_commits_html, lines 107-114: the statistics of one commit *)
CommitStats(cs, commit) ==
    IF Len(commit.parents) > 0
    THEN diff_to_tree(commit.tree, cs[commit.parents[1]].tree, FALSE)
    ELSE diff_to_tree(commit.tree, EmptyTree, TRUE)

(* generate_commits_html, lines 103-126: the sorted commits and the rows *)
CommitsSorted(cs, w) ==
    SortThenReverse(w, [i \in 1..Len(w) |-> cs[w[i]].commit_time])

CommitRows(cs, sorted) ==
    [i \in 1..Min(MAX_COMMITS, Len(sorted)) |->
        LET stats == CommitStats(cs, cs[sorted[i]])
        IN  [commit_id |-> sorted[i],
             commit_insertions |-> stats.insertions,
             commit_deletions |-> stats.deletions]]

generate_commits_html ==
    /\ pc = "commits"
    /\ \E w \in TopologicalWalks(commits, HeadTarget(commits)) :
         LET sorted == CommitsSorted(commits, w)
             out == OpenWrite(fs, CommitsHtml)
         IN  /\ walk' = w
             /\ fs' = out.fs
             /\ IF out.err # ""
                THEN /\ Crash(out.err)
                     /\ UNCHANGED <<commits_page, written>>
                ELSE /\ commits_page' = [rows |-> CommitRows(commits, sorted),
                                         total |-> Len(sorted)]
                     /\ written' = Append(written, CommitsHtml)
                     /\ pc' = "refs"
                     /\ err' = ""
    /\ UNCHANGED <<commits, tags, branches, tree, refs_page, raw_data, files_page>>

(* generate_refs_html, lines 143-155, for one of the two lists: the cap,    *)
(* the sort by x[1].commit_time (an AttributeError when x[1] is no commit), *)
(* the rows.                                                                *)
RefRows(raw, isBranch) ==
    LET tmp == Take(raw, MAX_REFS)
    IN  IF \E i \in 1..Len(tmp) : tmp[i].commit.type # "commit"
        THEN [err |-> "AttributeError", rows |-> <<>>]
        ELSE LET sorted == SortThenReverse(tmp, [i \in 1..Len(tmp) |-> tmp[i].commit.commit_time])
             IN  [err |-> "",
                  rows |-> [i \in 1..Len(sorted) |->
                     [name |-> IF isBranch THEN get_branch_name(sorted[i].ref)
                                           ELSE sorted[i].ref.shorthand,
                      commit_id |-> sorted[i].commit.id]]]

NoRefsPage == [branches |-> <<>>, tags |-> <<>>, n_branches |-> -1, n_tags |-> -1]

generate_refs_html ==
    /\ pc = "refs"
    /\ LET b == RefRows(get_branches(commits, branches), TRUE)
           t == RefRows(get_tags(commits, tags), FALSE)
           out == OpenWrite(fs, RefsHtml)
       IN  IF b.err # "" THEN Crash(b.err) /\ UNCHANGED <<fs, refs_page, written>>
           ELSE IF t.err # "" THEN Crash(t.err) /\ UNCHANGED <<fs, refs_page, written>>
           ELSE IF out.err # "" THEN Crash(out.err) /\ UNCHANGED <<fs, refs_page, written>>
           ELSE /\ refs_page' = [branches |-> b.rows, tags |-> t.rows,
                                 n_branches |-> Len(b.rows), n_tags |-> Len(t.rows)]
                /\ fs' = out.fs
                /\ written' = Append(written, RefsHtml)
                /\ pc' = "files"
                /\ err' = ""
    /\ UNCHANGED <<commits, tags, branches, tree, walk, commits_page, raw_data, files_page>>

(* raw_data.sort(key=lambda x: x[0]) *)
SortByPath(items) ==
    LET keys == [i \in 1..Len(items) |->
                    Cardinality({j \in 1..Len(items) : StrLess(items[j].key, items[i].key)})]
        p == StableSort(keys)
    IN  [k \in 1..Len(items) |-> items[p[k]]]

(* lines 199-203: os.path.join(args.outdir, "file", *f"{file_path}.html".split("/")) *)
OutPath(file_path) == << <<"file">> >> \o Split(file_path \o <<".html">>, "/")

(* lines 191-206 with the page written only for a listed row: the bug the   *)
(* viewer-page claim excludes                                               *)
WritesPageCapped(i, mime) == i <= MAX_FILES /\ is_mime_viewable(mime)

(* line 191: whether iteration i (from 1) renders and writes a viewer page *)
WritesPage(i, mime) == is_mime_viewable(mime)

(* lines 179-206: iterations i.. of the loop over raw_data, from the state  *)
(* st = [fs, written, data, err]; the loop ends at the first exception.     *)
RECURSIVE FilesLoop(_, _, _)
FilesLoop(rd, i, st) ==
    IF i > Len(rd) \/ st.err # "" THEN st
    ELSE LET file_path == rd[i].key
             file == rd[i].entry
             mime == file.mime
             data == IF i <= MAX_FILES
                     THEN Append(st.data, [mode |-> file.filemode, path |-> file_path,
                                           viewable |-> is_mime_viewable(mime)])
                     ELSE st.data
         IN  IF ~WritesPage(i, mime)
             THEN FilesLoop(rd, i + 1, [st EXCEPT !.data = data])
             ELSE IF ~file.utf8
             THEN [st EXCEPT !.data = data, !.err = "UnicodeDecodeError"]
             ELSE LET out_path == OutPath(file_path)
                      md == MakeDirs(st.fs, Parent(out_path))
                      op == OpenWrite(md.fs, out_path)
                  IN  IF md.err # ""
                      THEN [st EXCEPT !.data = data, !.fs = md.fs, !.err = md.err]
                      ELSE IF op.err # ""
                      THEN [st EXCEPT !.data = data, !.fs = op.fs, !.err = op.err]
                      ELSE FilesLoop(rd, i + 1,
                               [fs |-> op.fs, written |-> Append(st.written, out_path),
                                data |-> data, err |-> ""])

generate_files_html ==
    /\ pc = "files"
    /\ LET rd == SortByPath(flatten(list_files(tree), <<>>, <<"/">>))
           st == FilesLoop(rd, 1, [fs |-> fs, written |-> written, data |-> <<>>, err |-> ""])
           out == OpenWrite(st.fs, FilesHtml)
       IN  /\ raw_data' = rd
           /\ IF st.err # ""
              THEN /\ Crash(st.err)
                   /\ fs' = st.fs
                   /\ written' = st.written
                   /\ UNCHANGED files_page
              ELSE IF out.err # ""
              THEN /\ Crash(out.err)
                   /\ fs' = st.fs
                   /\ written' = st.written
                   /\ UNCHANGED files_page
              ELSE /\ files_page' = [rows |-> st.data, total |-> Len(rd)]
                   /\ fs' = out.fs
                   /\ written' = Append(st.written, FilesHtml)
                   /\ pc' = "index"
                   /\ err' = ""
    /\ UNCHANGED <<commits, tags, branches, tree, walk, commits_page, refs_page>>

(* __main__, lines 261-266 *)
link_index ==
    /\ pc = "index"
    /\ LET rm == IF PathExists(fs, IndexHtml) THEN Remove(fs, IndexHtml)
                 ELSE [err |-> "", fs |-> fs]
           ln == Symlink(rm.fs, FilesHtml, IndexHtml)
       IN  IF rm.err # "" THEN Crash(rm.err) /\ fs' = rm.fs /\ UNCHANGED written
           ELSE IF ln.err # "" THEN Crash(ln.err) /\ fs' = rm.fs /\ UNCHANGED written
           ELSE /\ fs' = ln.fs
                /\ written' = Append(written, IndexHtml)
                /\ pc' = "done"
                /\ err' = ""
    /\ UNCHANGED <<commits, tags, branches, tree, walk, commits_page, refs_page,
                   raw_data, files_page>>

Next == generate_commits_html \/ generate_refs_html \/ generate_files_html \/ link_index

----------------------------------------------------------------------------
(* The explored inputs.  Each family varies one part of the input around a  *)
(* fixed repository: the linear history R <- A <- B in which every commit   *)
(* adds one line to a new file, A and B committed at the same time.         *)

LinearHistory ==
    << [id |-> 1, commit_time |-> 1, parents |-> <<>>, tree |-> {1}],
       [id |-> 2, commit_time |-> 2, parents |-> <<1>>, tree |-> {1, 2}],
       [id |-> 3, commit_time |-> 2, parents |-> <<2>>, tree |-> {1, 2, 3}] >>

DefaultTree == << BlobEntry(<<"a">>, [mime |-> TextPlain, utf8 |-> TRUE]) >>

EmptyDir == [q \in {} |-> File]

(* What an output directory can hold before the run: nothing; an index.html *)
(* that is a regular file; the pages and the link of a previous run; a link *)
(* to an older primary page that still exists; a link whose target is gone. *)
PriorOutdirs ==
    { EmptyDir,
      [q \in {IndexHtml} |-> File],
      [q \in {CommitsHtml, RefsHtml, FilesHtml, IndexHtml} |->
          IF q = IndexHtml THEN Link(FilesHtml) ELSE File],
      [q \in {OldHtml, IndexHtml} |-> IF q = IndexHtml THEN Link(OldHtml) ELSE File],
      [q \in {IndexHtml} |-> Link(OldHtml)] }

Start ==
    /\ pc = "commits"
    /\ err = ""
    /\ walk = <<>>
    /\ commits_page = NoPage
    /\ refs_page = NoRefsPage
    /\ raw_data = <<>>
    /\ files_page = NoPage
    /\ written = <<>>

InitCommits ==
    /\ commits \in Histories(MaxCommits)
    /\ tags = <<>> /\ branches = <<>> /\ tree = DefaultTree /\ fs = EmptyDir
    /\ Start

InitRefs ==
    /\ commits = LinearHistory
    /\ \/ tags \in TagLists(commits, MaxRefs) /\ branches = <<>>
       \/ tags = <<>> /\ branches \in BranchLists(commits, MaxRefs)
    /\ tree = DefaultTree /\ fs = EmptyDir
    /\ Start

InitFiles ==
    /\ commits = LinearHistory
    /\ tags = <<>> /\ branches = <<>> /\ tree \in Trees(MaxEntries) /\ fs = EmptyDir
    /\ Start

InitIndex ==
    /\ commits = LinearHistory
    /\ tags = <<>> /\ branches = <<>>
    /\ tree \in Trees(1)
    /\ fs \in PriorOutdirs
    /\ Start

Init == InitCommits \/ InitRefs \/ InitFiles \/ InitIndex

Spec == Init /\ [][Next]_vars

SpecCommits == InitCommits /\ [][Next]_vars

SpecRefs == InitRefs /\ [][Next]_vars

SpecFiles == InitFiles /\ [][Next]_vars

SpecIndex == InitIndex /\ [][Next]_vars

----------------------------------------------------------------------------
(* What the claims speak of. *)

CommitsStageRan == CommitsHtml \in Range(written)
RefsStageRan == RefsHtml \in Range(written)
FilesStageEntered == RefsStageRan /\ pc # "files"
FilesStageRan == FilesHtml \in Range(written)
RunEnded == pc \in {"done", "crashed"}

(* The tree a commit is compared with: its first parent's, or the empty tree. *)
Baseline(c) == IF c.parents = <<>> THEN {} ELSE commits[c.parents[1]].tree

(* C1: every row of the commits page reports as insertions the lines the   *)
(* commit added to its baseline and as deletions the lines it removed.      *)
C1_StatsRelativeToBaseline ==
    CommitsStageRan =>
        \A i \in 1..Len(commits_page.rows) :
            LET c == commits[commits_page.rows[i].commit_id]
            IN  /\ commits_page.rows[i].commit_insertions = Cardinality(c.tree \ Baseline(c))
                /\ commits_page.rows[i].commit_deletions = Cardinality(Baseline(c) \ c.tree)

Shown(rows) == {rows[i].commit_id : i \in 1..Len(rows)}

(* The references that designate a commit, and their commits' times. *)
IsCommit(x) == x.commit.type = "commit"
CommitTags == SelectSeq(get_tags(commits, tags), IsCommit)
CommitBranches == SelectSeq(get_branches(commits, branches), IsCommit)
TimesOf(refs) == [i \in 1..Len(refs) |-> refs[i].commit.commit_time]

(* The rows, given by their times, are the most recent Min(cap, L) of the   *)
(* L items whose times are all: above every time t the rows hold as many    *)
(* items as the full list does, up to the cap.  Times are positive, so      *)
(* t = 0 counts all.                                                        *)
MostRecent(rowTimes, all, cap) ==
    \A t \in {0} \cup Range(all) \cup Range(rowTimes) :
        Cardinality({i \in 1..Len(rowTimes) : rowTimes[i] > t})
            = Min(cap, Cardinality({i \in 1..Len(all) : all[i] > t}))

RowTimes(rows) == [i \in 1..Len(rows) |-> commits[rows[i].commit_id].commit_time]

(* C2: on each capped page the rows are the first Min(cap, L) items of the  *)
(* fully ordered list: the most recent commits, branches and tags, and the  *)
(* files whose paths come first.                                            *)
C2_CapAfterOrdering ==
    /\ CommitsStageRan =>
          MostRecent(RowTimes(commits_page.rows),
                     [i \in 1..Len(walk) |-> commits[walk[i]].commit_time], MAX_COMMITS)
    /\ RefsStageRan =>
          /\ MostRecent(RowTimes(refs_page.branches), TimesOf(CommitBranches), MAX_REFS)
          /\ MostRecent(RowTimes(refs_page.tags), TimesOf(CommitTags), MAX_REFS)
    /\ FilesStageRan =>
          /\ Len(files_page.rows) = Min(MAX_FILES, NumLeaves(tree))
          /\ \A i, j \in 1..Len(files_page.rows) :
                i < j => StrLess(files_page.rows[i].path, files_page.rows[j].path)
          /\ \A i \in 1..Len(files_page.rows) : \A j \in 1..Len(raw_data) :
                raw_data[j].key \notin {files_page.rows[k].path : k \in 1..Len(files_page.rows)}
                    => StrLess(files_page.rows[i].path, raw_data[j].key)

(* C3: each page shows Min(cap, L) rows and reports the true length L.      *)
C3_RowsAndTrueTotal ==
    /\ CommitsStageRan =>
          /\ Len(commits_page.rows)
                = Min(MAX_COMMITS, Cardinality(Ancestors(commits, HeadTarget(commits))))
          /\ commits_page.total = Cardinality(Ancestors(commits, HeadTarget(commits)))
    /\ RefsStageRan =>
          /\ Len(refs_page.branches) = Min(MAX_REFS, Len(CommitBranches))
          /\ refs_page.n_branches = Len(CommitBranches)
          /\ Len(refs_page.tags) = Min(MAX_REFS, Len(CommitTags))
          /\ refs_page.n_tags = Len(CommitTags)
    /\ FilesStageRan =>
          /\ Len(files_page.rows) = Min(MAX_FILES, NumLeaves(tree))
          /\ files_page.total = NumLeaves(tree)

WalkPos(id) == CHOOSE i \in 1..Len(walk) : walk[i] = id

(* C4: the commits page is in descending commit-time order, commits of      *)
(* equal time in the order the walk produced them.                          *)
C4_TimeDescendingStable ==
    CommitsStageRan =>
        \A i, j \in 1..Len(commits_page.rows) :
            i < j =>
                LET a == commits_page.rows[i].commit_id
                    b == commits_page.rows[j].commit_id
                IN  /\ commits[a].commit_time >= commits[b].commit_time
                    /\ commits[a].commit_time = commits[b].commit_time
                          => WalkPos(a) < WalkPos(b)

(* C5: a tag or remote branch that does not designate a commit produces no *)
(* row and does not end the run; every row designates a commit.             *)
C5_NonCommitRefsSkipped ==
    /\ (pc = "crashed" /\ CommitsStageRan /\ ~RefsStageRan) => err # "AttributeError"
    /\ RefsStageRan =>
          /\ Shown(refs_page.tags) \cup Shown(refs_page.branches) \subseteq 1..Len(commits)
          /\ Len(refs_page.tags) <= Len(CommitTags)
          /\ Len(refs_page.branches) <= Len(CommitBranches)

(* The classification of section 4.4, read off the detected type. *)
Viewable(e) == e.mime[1] = "text" \/ e.mime = AppJson
Undecodable(e) == Viewable(e) /\ ~e.utf8

PagesWritten(path) ==
    Cardinality({k \in 1..Len(written) : written[k] = OutPath(path)})

(* C6: a viewable blob whose bytes do not decode does not end the run: it   *)
(* is listed as not viewable without a page, and files.html and the index   *)
(* are still written.                                                       *)
C6_DecodeFailureIsolated ==
    /\ (pc = "crashed" /\ FilesStageEntered) => err # "UnicodeDecodeError"
    /\ pc = "done" =>
          \A i \in 1..Len(raw_data) :
              Undecodable(raw_data[i].entry) => PagesWritten(raw_data[i].key) = 0

(* C7: once all pages are written, the run ends with index.html a symbolic  *)
(* link to the files.html just written, whatever index.html was before.     *)
C7_IndexLinksToFilesHtml ==
    (FilesStageRan /\ RunEnded) =>
        /\ pc = "done"
        /\ IndexHtml \in DOMAIN fs
        /\ fs[IndexHtml] = Link(FilesHtml)
        /\ FilesHtml \in DOMAIN fs /\ fs[FilesHtml].kind = "file"

(* The leaves of a tree, each by the names from the root down to it. *)
RECURSIVE LeafNames(_)
LeafNames(es) ==
    UNION { IF es[i].type = "tree"
            THEN { <<es[i].name>> \o p : p \in LeafNames(es[i].entries) }
            ELSE { <<es[i].name>> }
            : i \in 1..Len(es) }

Paths == {raw_data[i].key : i \in 1..Len(raw_data)}

(* C8: flattening the head tree yields one (path, entry) pair per leaf, no  *)
(* path twice, each path the leaf's names joined by "/" with no leading     *)
(* separator.                                                               *)
C8_FlattenKeepsEveryLeaf ==
    FilesStageEntered =>
        /\ Len(raw_data) = NumLeaves(tree)
        /\ \A i, j \in 1..Len(raw_data) : i # j => raw_data[i].key # raw_data[j].key
        /\ Paths = {Join(p, "/") : p \in LeafNames(tree)}
        /\ \A p \in Paths : p # <<>> /\ p[1] # "/"

(* a tree with a leaf below a subtree and a name used at two levels *)
C8_Witness ==
    /\ FilesStageEntered
    /\ NumLeaves(tree) >= 2
    /\ \E p \in Paths : \E k \in 1..Len(p) : p[k] = "/"
    /\ \E n \in LeafNames(tree) : Len(n) = 2 /\ n[1] = n[2]

(* C9: when the file pages and files.html are written, each viewable file   *)
(* of the head tree has had exactly one viewer page written, at             *)
(* file/<path>.html, also beyond the first MAX_FILES rows; no other viewer  *)
(* page is written; each row's flag tells whether the page was written.     *)
C9_PageIffViewable ==
    FilesStageRan =>
        /\ \A i \in 1..Len(raw_data) :
              /\ PagesWritten(raw_data[i].key)
                    = (IF Viewable(raw_data[i].entry) THEN 1 ELSE 0)
              /\ Viewable(raw_data[i].entry) =>
                    /\ OutPath(raw_data[i].key) \in DOMAIN fs
                    /\ fs[OutPath(raw_data[i].key)].kind = "file"
        /\ \A k \in 1..Len(written) :
              written[k][1] = <<"file">> => \E p \in Paths : written[k] = OutPath(p)
        /\ \A i \in 1..Len(files_page.rows) :
              files_page.rows[i].viewable <=> PagesWritten(files_page.rows[i].path) = 1

(* a finished run over a tree with a viewable file beyond the listed rows   *)
(* and a file that is not viewable                                          *)
C9_Witness ==
    /\ pc = "done"
    /\ Len(raw_data) > MAX_FILES
    /\ Viewable(raw_data[Len(raw_data)].entry)
    /\ PagesWritten(raw_data[Len(raw_data)].key) = 1
    /\ \E i \in 1..Len(raw_data) : ~Viewable(raw_data[i].entry)
    /\ \E i \in 1..Len(raw_data) : raw_data[i].entry.mime = AppJson

IsProperPrefix(p, q) == Len(p) < Len(q) /\ SubSeq(q, 1, Len(p)) = p

(* C10: the viewer output paths of distinct viewable files never conflict:  *)
(* none equals another, none is a directory on the way to another, and no   *)
(* page's writing is refused because of another page.  Stated for the trees *)
(* whose viewable files all decode, where nothing else can stop the loop.   *)
C10_OutputPathsNeverConflict ==
    (FilesStageEntered /\ \A i \in 1..Len(raw_data) : ~Undecodable(raw_data[i].entry)) =>
        /\ \A i, j \in 1..Len(raw_data) :
              (i # j /\ Viewable(raw_data[i].entry) /\ Viewable(raw_data[j].entry)) =>
                  /\ OutPath(raw_data[i].key) # OutPath(raw_data[j].key)
                  /\ ~IsProperPrefix(OutPath(raw_data[i].key), OutPath(raw_data[j].key))
        /\ err \notin {"FileExistsError", "NotADirectoryError", "IsADirectoryError"}

====
